---- MODULE Spec2Model ----
(***************************************************************************)
(* The indexing orchestration engine: index() of src/unnamed/part_000 and  *)
(* getAccessToken() of src/src/shared/auth.ts, as a state machine.  In     *)
(* Phase B and Phase C one action is one synchronous stretch of JavaScript *)
(* between two awaits: the event loop runs each stretch to its end before  *)
(* the next one starts.  Where index() awaits alone (the credential loop,  *)
(* the page-set resolution) an action spans the awaits of one iteration.   *)
(* Times are milliseconds, counted from an arbitrary origin.  The batch    *)
(* runner, the sitemap reader and the remote calls are not part of the     *)
(* sources at hand: the runner follows section 4.3 of the specification    *)
(* (sequential chunks, each awaited whole), the remote calls answer any of *)
(* their typed results.                                                    *)
(***************************************************************************)
EXTENDS Integers, Sequences, FiniteSets, TLC

\* ------------------------------------------------------------------ bounds
MaxCreds == 2
MaxPages == 3
\* the concurrency limit handed to the batch runner: 50 in the source, kept
\* small here so that page sets larger than the limit are explored
BatchSize == 2
MaxTicks == 1

\* --------------------------------------------------------------- constants
CACHE_TIMEOUT == 1000 * 60 * 60 * 24 * 14

StartTime == CACHE_TIMEOUT + 2

URLS == {"u1", "u2"}

Status ==
    {"SubmittedAndIndexed", "DuplicateWithoutUserSelectedCanonical",
     "CrawledCurrentlyNotIndexed", "DiscoveredCurrentlyNotIndexed",
     "PageWithRedirect", "URLIsUnknownToGoogle", "RateLimited", "Forbidden",
     "Error"}

\* Object.keys(pagesPerStatus): the insertion order of the literal
StatusOrder ==
    <<"SubmittedAndIndexed", "DuplicateWithoutUserSelectedCanonical",
      "CrawledCurrentlyNotIndexed", "DiscoveredCurrentlyNotIndexed",
      "PageWithRedirect", "URLIsUnknownToGoogle", "RateLimited", "Forbidden",
      "Error">>

indexableStatuses ==
    {"DiscoveredCurrentlyNotIndexed", "CrawledCurrentlyNotIndexed",
     "URLIsUnknownToGoogle", "Forbidden", "Error", "RateLimited"}

\* what the status endpoint answers in the model: one status of each class
\* the orchestrator tells apart (indexed, indexable, the two throttle signals)
RemoteStatuses ==
    {"SubmittedAndIndexed", "CrawledCurrentlyNotIndexed", "RateLimited",
     "Forbidden"}

\* numeric codes of the publish-metadata probe and of the submission call
ProbeCodes == {200, 404, 429, 403, 500}
RequestCodes == {200, 429, 403, 500}

NoRecord == [status |-> "none", lastCheckedAt |-> 0]

VARIABLES
    pc,                  \* where index() stands
    run,                 \* 1 for the first invocation, 2 for the one after it
    now,                 \* Date.now()
    runStart,            \* the clock when this invocation began
    credentials,         \* the ServiceAccount[] of lines 66-71
    credPos,             \* the for loop of line 80
    validCredentials,    \* sessions: [credential, accessToken]
    verifiedSiteUrl,     \* 0: undefined, else the credential whose check set it
    warned,              \* credentials the catch of line 88 warned about
    optUrls,             \* options.urls after line 58 (<<>>: none)
    siteMaps,            \* what getSitemapPages answers for the site
    pages,
    cacheFile,           \* the JSON document at cachePath (all NoRecord: absent)
    statusPerUrl,
    pagesPerStatus,
    currentAccountIndex,
    workers,             \* the per-item operations of the chunk in progress
    batchIndex,          \* chunks started so far
    batchLog,            \* onBatchComplete calls: <<batchIndex, batchCount>>
    indexablePages,
    cPos,                \* the for loop of line 221
    cur,                 \* the Phase C operation on indexablePages[cPos]
    remote,              \* first answer of the status endpoint per (credential, url)
    stable,              \* no (credential, url) has answered two different statuses
    hist                 \* what is remembered of the previous and the current run

vars ==
    <<pc, run, now, runStart, credentials, credPos, validCredentials,
      verifiedSiteUrl, warned, optUrls, siteMaps, pages, cacheFile,
      statusPerUrl, pagesPerStatus, currentAccountIndex, workers, batchIndex,
      batchLog, indexablePages, cPos, cur, remote, stable, hist>>

\* ------------------------------------------------------------ pure helpers
Min(a, b) == IF a < b THEN a ELSE b

SeqsUpTo(S, n) == UNION {[1..k -> S] : k \in 0..n}

EmptyPartition == [s \in Status |-> <<>>]

EmptyCache == [u \in URLS |-> NoRecord]

RECURSIVE Flatten(_)
Flatten(ss) == IF ss = <<>> THEN <<>> ELSE Head(ss) \o Flatten(Tail(ss))

\* getAccessToken: "exit" is process.exit(1), "throw" a rejected promise
getAccessToken(client_email, private_key, authorize) ==
    IF ~client_email THEN "exit"
    ELSE IF ~private_key THEN "exit"
    ELSE IF authorize = "token" THEN "token"
    ELSE "throw"

\* checkCustomUrls keeps one URL per given URL, in the given order
checkCustomUrls(urls) == urls

\* batch: the chunks are consecutive slices of batchSize items
batchCount(items, batchSize) == (Len(items) + batchSize - 1) \div batchSize

chunkOf(items, batchSize, i) ==
    SubSeq(items, i * batchSize + 1, Min(Len(items), (i + 1) * batchSize))

batchSizeUnbounded == BatchSize + Len(pages)

\* the third argument of the batch call
batchSizeArg == BatchSize

shouldRecheckInclusive(status, lastCheckedAt) ==
    status \in indexableStatuses /\ lastCheckedAt <= now - CACHE_TIMEOUT

shouldRecheck(status, lastCheckedAt) ==
    LET shouldIndexIt == status \in indexableStatuses
        isOld == lastCheckedAt < now - CACHE_TIMEOUT
    IN  shouldIndexIt /\ isOld

mustFetchUnlessCached(url) == statusPerUrl[url] = NoRecord

\* the condition of line 162 on the record the cache holds for url
mustFetch(url) ==
    LET result == statusPerUrl[url]
    IN  result = NoRecord \/ shouldRecheck(result.status, result.lastCheckedAt)

\* the condition of lines 169 and 175
isThrottle(status) == status \in {"RateLimited", "Forbidden"}

isThrottleCodeOrError(code) == code \in {429, 403, 500}

\* the condition of lines 233 and 241
isThrottleCode(code) == code \in {429, 403}

\* rotateAccount up to its await: the new currentAccountIndex
rotatedIndex == (currentAccountIndex + 1) % Len(validCredentials)

mayRetryInclusive(rotationCount) == rotationCount <= Len(validCredentials)

\* the while conditions of lines 166 and 227
mayRetry(rotationCount) == rotationCount < Len(validCredentials)

appendPageOnce(pps, status, url) ==
    IF \E i \in 1..Len(pps[status]) : pps[status][i] = url THEN pps
    ELSE [pps EXCEPT ![status] = Append(@, url)]

\* line 188
appendPage(pps, status, url) == [pps EXCEPT ![status] = Append(@, url)]

computeAllPages(pps) ==
    Flatten([i \in 1..Len(StatusOrder) |-> pps[StatusOrder[i]]])

\* lines 209-211
computeIndexablePages(pps) ==
    Flatten([i \in 1..Len(StatusOrder) |->
        IF StatusOrder[i] \in indexableStatuses THEN pps[StatusOrder[i]] ELSE <<>>])

activeSession == validCredentials[currentAccountIndex + 1]

allSettled == \A w \in 1..Len(workers) : workers[w].st = "settled"

inFlight == Cardinality({w \in 1..Len(workers) : workers[w].st # "settled"})

\* the loop body of lines 224-256 for one URL: its variables (status and
\* requestStatus hold the last code that was not 429 or 403), and counts of the
\* calls it has made (probes, of which notFound answered 404; submits, of which
\* throttled answered 429 or 403; rotations counts the rotateAccount calls)
IdleOp ==
    [st |-> "none", rotationCount |-> 0, accessToken |-> 0, acct |-> 0,
     next |-> 0, processed |-> FALSE, status |-> 0, requestStatus |-> 0,
     report |-> "none", rotations |-> 0, probes |-> 0, notFound |-> 0,
     submits |-> 0, throttled |-> 0]

FreshHist ==
    [ran |-> FALSE, prevPartition |-> EmptyPartition,
     startCache |-> EmptyCache, statusCalls |-> FALSE, live |-> {},
     writes |-> 0, cCalls |-> FALSE]

\* ------------------------------------------------------------------ inputs
Credential == [client_email : BOOLEAN, private_key : BOOLEAN]

CredentialLists == SeqsUpTo(Credential, MaxCreds)

Complete == [client_email |-> TRUE, private_key |-> TRUE]

\* page lists, up to the naming of the URLs: the first one is called u1
UrlLists == {p \in SeqsUpTo(URLS, MaxPages) : p # <<>> => p[1] = "u1"}

SiteMapAnswers ==
    {[sitemaps |-> 0, pages |-> <<>>], [sitemaps |-> 1, pages |-> <<>>],
     [sitemaps |-> 1, pages |-> <<"u1">>]}

OldTime == StartTime - CACHE_TIMEOUT - 1

EdgeTime == StartTime - CACHE_TIMEOUT

\* caches an earlier run can have left: every kind of record on u1
InitialCaches ==
    {[u \in URLS |-> IF u = "u1" THEN r1 ELSE r2] :
        r1 \in {NoRecord,
                [status |-> "SubmittedAndIndexed", lastCheckedAt |-> OldTime],
                [status |-> "CrawledCurrentlyNotIndexed", lastCheckedAt |-> OldTime],
                [status |-> "CrawledCurrentlyNotIndexed", lastCheckedAt |-> EdgeTime]},
        r2 \in {NoRecord,
                [status |-> "RateLimited", lastCheckedAt |-> EdgeTime]}}

InitWith(creds, urlLists, siteMapAnswers, caches, steady) ==
    /\ pc = "pool"
    /\ run = 1
    /\ now = StartTime
    /\ runStart = StartTime
    /\ credentials \in creds
    /\ credPos = 1
    /\ validCredentials = <<>>
    /\ verifiedSiteUrl = 0
    /\ warned = {}
    /\ optUrls \in urlLists
    /\ siteMaps \in siteMapAnswers
    /\ optUrls # <<>> => siteMaps.sitemaps = 0
    /\ pages = <<>>
    /\ cacheFile \in caches
    /\ statusPerUrl = EmptyCache
    /\ pagesPerStatus = EmptyPartition
    /\ currentAccountIndex = 0
    /\ workers = <<>>
    /\ batchIndex = 0
    /\ batchLog = <<>>
    /\ indexablePages = <<>>
    /\ cPos = 0
    /\ cur = IdleOp
    /\ remote = [c \in 1..MaxCreds |-> [u \in URLS |-> "unknown"]]
    /\ stable = steady
    /\ hist = [FreshHist EXCEPT !.startCache = cacheFile]

\* a full list of complete credentials, any page source, any cache
Init ==
    InitWith({c \in CredentialLists :
                  Len(c) = MaxCreds /\ \A i \in 1..Len(c) : c[i] = Complete},
             UrlLists, SiteMapAnswers, InitialCaches, FALSE)

\* ------------------------------------------------------- credential pool
\* one iteration of the for loop of lines 80-91
TryCredential ==
    /\ pc = "pool"
    /\ credPos <= Len(credentials)
    /\ \E authorize \in {"token", "rejects", "empty"}, access \in BOOLEAN :
        LET c == credentials[credPos]
            r == getAccessToken(c.client_email, c.private_key, authorize)
        IN  IF r = "exit"
            THEN /\ pc' = "exit:credential"
                 /\ UNCHANGED <<credPos, validCredentials, verifiedSiteUrl, warned>>
            ELSE /\ pc' = pc
                 /\ credPos' = credPos + 1
                 /\ IF r = "token" /\ access
                    THEN /\ verifiedSiteUrl' =
                                IF verifiedSiteUrl = 0 THEN credPos ELSE verifiedSiteUrl
                         /\ validCredentials' =
                                Append(validCredentials,
                                       [credential |-> credPos, accessToken |-> 0])
                         /\ warned' = warned
                    ELSE /\ warned' = warned \cup {credPos}
                         /\ UNCHANGED <<validCredentials, verifiedSiteUrl>>
    /\ UNCHANGED <<run, now, runStart, credentials, optUrls, siteMaps, pages,
                   cacheFile, statusPerUrl, pagesPerStatus, currentAccountIndex,
                   workers, batchIndex, batchLog, indexablePages, cPos, cur,
                   remote, stable, hist>>

\* lines 93-100
PoolCheck ==
    /\ pc = "pool"
    /\ credPos > Len(credentials)
    /\ pc' = IF Len(validCredentials) = 0 \/ verifiedSiteUrl = 0
             THEN "exit:pool" ELSE "resolve"
    /\ currentAccountIndex' = 0
    /\ UNCHANGED <<run, now, runStart, credentials, credPos, validCredentials,
                   verifiedSiteUrl, warned, optUrls, siteMaps, pages, cacheFile,
                   statusPerUrl, pagesPerStatus, workers, batchIndex, batchLog,
                   indexablePages, cPos, cur, remote, stable, hist>>

\* ---------------------------------------------------- page-set resolution
\* lines 110-142 with the explicit list, up to the batch call
ResolveCustom ==
    /\ pc = "resolve"
    /\ Len(optUrls) # 0
    /\ pages' = checkCustomUrls(optUrls)
    /\ statusPerUrl' = cacheFile
    /\ pagesPerStatus' = EmptyPartition
    /\ pc' = "batch"
    /\ UNCHANGED <<run, now, runStart, credentials, credPos, validCredentials,
                   verifiedSiteUrl, warned, optUrls, siteMaps, cacheFile,
                   currentAccountIndex, workers, batchIndex, batchLog,
                   indexablePages, cPos, cur, remote, stable, hist>>

noSitemapsNegative(sitemaps) == sitemaps < 0

\* the condition of line 115 on sitemaps.length
noSitemaps(sitemaps) == sitemaps = 0

\* lines 110-142 with the sitemaps, up to the batch call
ResolveSitemap ==
    /\ pc = "resolve"
    /\ Len(optUrls) = 0
    /\ IF noSitemaps(siteMaps.sitemaps)
       THEN /\ pc' = "exit:sitemaps"
            /\ UNCHANGED <<pages, statusPerUrl, pagesPerStatus>>
       ELSE /\ pages' = siteMaps.pages
            /\ statusPerUrl' = cacheFile
            /\ pagesPerStatus' = EmptyPartition
            /\ pc' = "batch"
    /\ UNCHANGED <<run, now, runStart, credentials, credPos, validCredentials,
                   verifiedSiteUrl, warned, optUrls, siteMaps, cacheFile,
                   currentAccountIndex, workers, batchIndex, batchLog,
                   indexablePages, cPos, cur, remote, stable, hist>>

\* ---------------------------------------------------- Phase B: the batch
\* the per-item operation of lines 160-189 on a cache hit: it runs to its end
\* inside the map call
hitWorker(url) ==
    [url |-> url, st |-> "settled", status |-> "Error", rotationCount |-> 0,
     acct |-> 0, token |-> 0, next |-> 0, result |-> statusPerUrl[url],
     calls |-> <<>>]

\* the per-item operation on a miss, up to its first await (line 167)
missWorker(url) ==
    [url |-> url, st |-> "status", status |-> "Error", rotationCount |-> 0,
     acct |-> currentAccountIndex, token |-> activeSession.accessToken,
     next |-> 0, result |-> NoRecord, calls |-> <<>>]

startWorker(url) == IF mustFetch(url) THEN missWorker(url) ELSE hitWorker(url)

\* line 188 for the hits of a chunk, in the order of the chunk
RECURSIVE appendHits(_, _)
appendHits(pps, chunk) ==
    IF chunk = <<>> THEN pps
    ELSE LET url == Head(chunk)
             next == IF mustFetch(url) THEN pps
                     ELSE appendPage(pps, statusPerUrl[url].status, url)
         IN  appendHits(next, Tail(chunk))

\* the callback of lines 192-194 for the chunk that has just settled
progress ==
    IF batchIndex = 0 THEN batchLog
    ELSE Append(batchLog, <<batchIndex, batchCount(pages, batchSizeArg)>>)

\* batch: the next chunk starts once the one before it has settled
BatchWave ==
    /\ pc = "batch"
    /\ allSettled
    /\ batchIndex < batchCount(pages, batchSizeArg)
    /\ LET chunk == chunkOf(pages, batchSizeArg, batchIndex)
       IN  /\ workers' = [k \in 1..Len(chunk) |-> startWorker(chunk[k])]
           /\ pagesPerStatus' = appendHits(pagesPerStatus, chunk)
           /\ hist' = [hist EXCEPT !.statusCalls =
                          @ \/ \E k \in 1..Len(chunk) : mustFetch(chunk[k])]
    /\ batchLog' = progress
    /\ batchIndex' = batchIndex + 1
    /\ UNCHANGED <<pc, run, now, runStart, credentials, credPos,
                   validCredentials, verifiedSiteUrl, warned, optUrls, siteMaps,
                   pages, cacheFile, statusPerUrl, currentAccountIndex,
                   indexablePages, cPos, cur, remote, stable>>

\* what the status endpoint is known to answer, after one more answer
noteRemote(credential, url, status) ==
    IF ~stable THEN remote
    ELSE IF remote[credential][url] = "unknown"
    THEN [remote EXCEPT ![credential][url] = status]
    ELSE IF remote[credential][url] = status THEN remote
    ELSE [c \in 1..MaxCreds |-> [u \in URLS |-> "unknown"]]

noteStable(credential, url, status) ==
    stable /\ remote[credential][url] \in {"unknown", status}

liveResultUnstamped(status) == [status |-> status, lastCheckedAt |-> 0]

liveResultInitial(status) == [status |-> "Error", lastCheckedAt |-> now]

\* line 184: the record of a live result
liveResult(status) == [status |-> status, lastCheckedAt |-> now]

\* lines 184-188 of worker w, whose loop ended with status
settle(w, status, rotationCount, calls) ==
    /\ workers' = [workers EXCEPT ![w].st = "settled", ![w].status = status,
                                  ![w].rotationCount = rotationCount,
                                  ![w].result = liveResult(status),
                                  ![w].calls = calls]
    /\ statusPerUrl' = [statusPerUrl EXCEPT ![workers[w].url] = liveResult(status)]
    /\ pagesPerStatus' =
          appendPage(pagesPerStatus, liveResult(status).status, workers[w].url)
    /\ hist' = [hist EXCEPT !.live = @ \cup {workers[w].url}]

\* getPageIndexingStatus answers worker w (lines 167-181, and 102-106 when it
\* rotates)
StatusResponse(w) ==
    /\ pc = "batch"
    /\ w \in 1..Len(workers)
    /\ workers[w].st = "status"
    /\ \E status \in RemoteStatuses :
        LET me == workers[w]
            credential == validCredentials[me.acct + 1].credential
            calls == Append(me.calls, [acct |-> me.acct, status |-> status])
        IN  /\ remote' = noteRemote(credential, me.url, status)
            /\ stable' = noteStable(credential, me.url, status)
            /\ IF isThrottle(status)
               THEN /\ currentAccountIndex' = rotatedIndex
                    /\ workers' = [workers EXCEPT ![w].st = "refresh",
                                                  ![w].status = status,
                                                  ![w].next = rotatedIndex,
                                                  ![w].calls = calls]
                    /\ UNCHANGED <<statusPerUrl, pagesPerStatus, hist>>
               ELSE /\ settle(w, status, me.rotationCount, calls)
                    /\ UNCHANGED currentAccountIndex
    /\ UNCHANGED <<pc, run, now, runStart, credentials, credPos,
                   validCredentials, verifiedSiteUrl, warned, optUrls, siteMaps,
                   pages, cacheFile, batchIndex, batchLog, indexablePages, cPos,
                   cur>>

countRotationNever(rotationCount) == rotationCount

\* rotationCount++ of lines 171, 177, 235 and 243
countRotation(rotationCount) == rotationCount + 1

refreshedLocalCopy(next) == validCredentials

\* line 106: the refreshed token lands on the session picked at line 104
refreshed(next) == [validCredentials EXCEPT ![next + 1].accessToken = @ + 1]

\* the getAccessToken of rotateAccount answers worker w (lines 106-107, then
\* 171-172 or 177-178, then the loop test and 167 or 184-188)
TokenResponse(w) ==
    /\ pc = "batch"
    /\ w \in 1..Len(workers)
    /\ workers[w].st = "refresh"
    /\ \E authorize \in {"token", "rejects"} :
        LET me == workers[w]
        IN  IF getAccessToken(TRUE, TRUE, authorize) = "throw"
            THEN /\ pc' = "rejected"
                 /\ UNCHANGED <<validCredentials, workers, statusPerUrl,
                                pagesPerStatus, hist>>
            ELSE /\ pc' = pc
                 /\ validCredentials' = refreshed(me.next)
                 /\ IF mayRetry(countRotation(me.rotationCount))
                    THEN /\ workers' =
                              [workers EXCEPT
                                  ![w].st = "status",
                                  ![w].rotationCount = countRotation(@),
                                  ![w].acct = currentAccountIndex,
                                  ![w].token =
                                      validCredentials'[currentAccountIndex + 1].accessToken]
                         /\ UNCHANGED <<statusPerUrl, pagesPerStatus, hist>>
                    ELSE settle(w, me.status, countRotation(me.rotationCount),
                                me.calls)
    /\ UNCHANGED <<run, now, runStart, credentials, credPos, verifiedSiteUrl,
                   warned, optUrls, siteMaps, pages, cacheFile,
                   currentAccountIndex, batchIndex, batchLog, indexablePages,
                   cPos, cur, remote, stable>>

persistedFetched ==
    [u \in URLS |-> IF u \in hist.live THEN statusPerUrl[u] ELSE NoRecord]

\* line 200: the document written to cachePath
persisted == statusPerUrl

\* the batch has resolved: lines 197-211, the cache write and the pages to index
BatchDone ==
    /\ pc = "batch"
    /\ allSettled
    /\ batchIndex = batchCount(pages, batchSizeArg)
    /\ batchLog' = progress
    /\ workers' = <<>>
    /\ cacheFile' = persisted
    /\ hist' = [hist EXCEPT !.writes = @ + 1]
    /\ indexablePages' = computeIndexablePages(pagesPerStatus)
    /\ cPos' = 0
    /\ cur' = IdleOp
    /\ pc' = "phaseC"
    /\ UNCHANGED <<run, now, runStart, credentials, credPos, validCredentials,
                   verifiedSiteUrl, warned, optUrls, siteMaps, pages,
                   statusPerUrl, pagesPerStatus, currentAccountIndex,
                   batchIndex, remote, stable>>

\* ------------------------------------------- Phase C: indexing requests
\* the top of the while loop of lines 227-231: the probe goes out with the
\* token of the active session
probing(op) ==
    [op EXCEPT !.st = "probe", !.acct = currentAccountIndex,
               !.accessToken = activeSession.accessToken, !.probes = @ + 1]

\* lines 221-231: the loop turns to the next URL to index
NextUrl ==
    /\ pc = "phaseC"
    /\ cur.st \in {"none", "ended"}
    /\ cPos < Len(indexablePages)
    /\ cPos' = cPos + 1
    /\ cur' = probing(IdleOp)
    /\ hist' = [hist EXCEPT !.cCalls = TRUE]
    /\ UNCHANGED <<pc, run, now, runStart, credentials, credPos,
                   validCredentials, verifiedSiteUrl, warned, optUrls, siteMaps,
                   pages, cacheFile, statusPerUrl, pagesPerStatus,
                   currentAccountIndex, workers, batchIndex, batchLog,
                   indexablePages, remote, stable>>

\* lines 246-251: what the loop reports for a probe code that is not a throttle
probeReport(status) ==
    IF status < 400 THEN "already" ELSE "silent"

\* getPublishMetadata answers (lines 229-251)
ProbeResponse ==
    /\ pc = "phaseC"
    /\ cur.st = "probe"
    /\ \E status \in ProbeCodes :
        IF isThrottleCode(status)
        THEN /\ currentAccountIndex' = rotatedIndex
             /\ cur' = [cur EXCEPT !.st = "refresh", !.rotations = @ + 1,
                                   !.next = rotatedIndex]
        ELSE IF status = 404
        THEN /\ cur' = [cur EXCEPT !.st = "submit", !.status = status,
                                   !.notFound = @ + 1, !.submits = @ + 1]
             /\ UNCHANGED currentAccountIndex
        ELSE /\ cur' = [cur EXCEPT !.st = "ended", !.status = status,
                                   !.processed = TRUE,
                                   !.report = probeReport(status)]
             /\ UNCHANGED currentAccountIndex
    /\ UNCHANGED <<pc, run, now, runStart, credentials, credPos,
                   validCredentials, verifiedSiteUrl, warned, optUrls, siteMaps,
                   pages, cacheFile, statusPerUrl, pagesPerStatus, workers,
                   batchIndex, batchLog, indexablePages, cPos, remote, stable,
                   hist>>

\* 1 when the submission call was answered 429 or 403
answeredThrottle(requestStatus) == IF requestStatus \in {429, 403} THEN 1 ELSE 0

\* requestIndexing answers (lines 240-251)
SubmitResponse ==
    /\ pc = "phaseC"
    /\ cur.st = "submit"
    /\ \E requestStatus \in RequestCodes :
        IF isThrottleCode(requestStatus)
        THEN /\ currentAccountIndex' = rotatedIndex
             /\ cur' = [cur EXCEPT !.st = "refresh", !.rotations = @ + 1,
                                   !.throttled = @ + answeredThrottle(requestStatus),
                                   !.next = rotatedIndex]
        ELSE /\ cur' = [cur EXCEPT !.st = "ended",
                                   !.requestStatus = requestStatus,
                                   !.throttled = @ + answeredThrottle(requestStatus),
                                   !.processed = TRUE, !.report = "requested"]
             /\ UNCHANGED currentAccountIndex
    /\ UNCHANGED <<pc, run, now, runStart, credentials, credPos,
                   validCredentials, verifiedSiteUrl, warned, optUrls, siteMaps,
                   pages, cacheFile, statusPerUrl, pagesPerStatus, workers,
                   batchIndex, batchLog, indexablePages, cPos, remote, stable,
                   hist>>

\* the getAccessToken of rotateAccount answers in Phase C (lines 106-107, then
\* 235-236 or 243-244, then the loop test and 228-229 or 254-256)
RefreshResponse ==
    /\ pc = "phaseC"
    /\ cur.st = "refresh"
    /\ \E authorize \in {"token", "rejects"} :
        IF getAccessToken(TRUE, TRUE, authorize) = "throw"
        THEN /\ pc' = "rejected"
             /\ UNCHANGED <<validCredentials, cur>>
        ELSE /\ pc' = pc
             /\ validCredentials' = refreshed(cur.next)
             /\ cur' =
                 IF mayRetry(countRotation(cur.rotationCount))
                 THEN [cur EXCEPT !.st = "probe",
                                  !.rotationCount = countRotation(@),
                                  !.acct = currentAccountIndex,
                                  !.accessToken =
                                      validCredentials'[currentAccountIndex + 1].accessToken,
                                  !.probes = @ + 1]
                 ELSE [cur EXCEPT !.st = "ended",
                                  !.rotationCount = countRotation(@),
                                  !.report = "failed"]
    /\ UNCHANGED <<run, now, runStart, credentials, credPos, verifiedSiteUrl,
                   warned, optUrls, siteMaps, pages, cacheFile, statusPerUrl,
                   pagesPerStatus, currentAccountIndex, workers, batchIndex,
                   batchLog, indexablePages, cPos, remote, stable, hist>>

\* lines 260-263: the loop of line 221 has no URL left
AllDone ==
    /\ pc = "phaseC"
    /\ cur.st \in {"none", "ended"}
    /\ cPos = Len(indexablePages)
    /\ pc' = "done"
    /\ UNCHANGED <<run, now, runStart, credentials, credPos, validCredentials,
                   verifiedSiteUrl, warned, optUrls, siteMaps, pages, cacheFile,
                   statusPerUrl, pagesPerStatus, currentAccountIndex, workers,
                   batchIndex, batchLog, indexablePages, cPos, cur, remote,
                   stable, hist>>

\* ------------------------------------------------------------ environment
\* the clock advances while index() awaits
Tick ==
    /\ pc = "batch"
    /\ now < StartTime + MaxTicks
    /\ now' = now + 1
    /\ UNCHANGED <<pc, run, runStart, credentials, credPos, validCredentials,
                   verifiedSiteUrl, warned, optUrls, siteMaps, pages, cacheFile,
                   statusPerUrl, pagesPerStatus, currentAccountIndex, workers,
                   batchIndex, batchLog, indexablePages, cPos, cur, remote,
                   stable, hist>>

\* index() is called again with the same arguments, in a new process
Rerun ==
    /\ pc = "done"
    /\ run = 1
    /\ run' = run + 1
    /\ runStart' = now
    /\ pc' = "pool"
    /\ credPos' = 1
    /\ validCredentials' = <<>>
    /\ verifiedSiteUrl' = 0
    /\ warned' = {}
    /\ pages' = <<>>
    /\ statusPerUrl' = EmptyCache
    /\ pagesPerStatus' = EmptyPartition
    /\ currentAccountIndex' = 0
    /\ workers' = <<>>
    /\ batchIndex' = 0
    /\ batchLog' = <<>>
    /\ indexablePages' = <<>>
    /\ cPos' = 0
    /\ cur' = IdleOp
    /\ hist' = [FreshHist EXCEPT !.ran = TRUE,
                                 !.prevPartition = pagesPerStatus,
                                 !.startCache = cacheFile]
    /\ UNCHANGED <<now, credentials, optUrls, siteMaps, cacheFile, remote, stable>>

Next ==
    \/ TryCredential
    \/ PoolCheck
    \/ ResolveCustom
    \/ ResolveSitemap
    \/ BatchWave
    \/ \E w \in 1..Len(workers) : StatusResponse(w)
    \/ \E w \in 1..Len(workers) : TokenResponse(w)
    \/ BatchDone
    \/ NextUrl
    \/ ProbeResponse
    \/ SubmitResponse
    \/ RefreshResponse
    \/ AllDone
    \/ Tick

Spec == Init /\ [][Next]_vars

\* ------------------------------------------- other inputs, the same program
\* any list of credentials, complete or not, for one page and no cache
InitPool ==
    InitWith(CredentialLists, {<<>>, <<"u1">>},
             {[sitemaps |-> 0, pages |-> <<>>], [sitemaps |-> 1, pages |-> <<"u1">>]},
             {EmptyCache}, FALSE)

SpecPool == InitPool /\ [][Next]_vars

\* one URL, one credential, and every record a cache can hold for the URL
RecheckCaches ==
    {[u \in URLS |-> IF u = "u1" THEN r ELSE NoRecord] :
        r \in [status : Status,
               lastCheckedAt : {OldTime, EdgeTime, EdgeTime + 1, StartTime}]}

InitRecheck ==
    InitWith({<<Complete>>}, {<<>>, <<"u1">>},
             {[sitemaps |-> 0, pages |-> <<>>], [sitemaps |-> 1, pages |-> <<"u1">>]},
             RecheckCaches, FALSE)

SpecRecheck == InitRecheck /\ [][Next]_vars

\* two invocations in a row against a steady status endpoint
TwiceCaches ==
    {[u \in URLS |-> IF u = "u1" THEN r ELSE NoRecord] :
        r \in {NoRecord,
               [status |-> "CrawledCurrentlyNotIndexed", lastCheckedAt |-> OldTime]}}

InitTwice ==
    InitWith({c \in CredentialLists :
                  Len(c) = MaxCreds /\ \A i \in 1..Len(c) : c[i] = Complete},
             {p \in UrlLists : Len(p) < MaxPages},
             {[sitemaps |-> 0, pages |-> <<>>], [sitemaps |-> 1, pages |-> <<"u1">>]},
             TwiceCaches, TRUE)

NextTwice == Next \/ Rerun

SpecTwice == InitTwice /\ [][NextTwice]_vars

\* up to three pages on two accounts and no cache, every step taken in the end:
\* every remote call and every token refresh is answered
InitLive ==
    InitWith({<<Complete, Complete>>},
             {<<>>, <<"u1">>, <<"u1", "u2">>, <<"u1", "u1", "u2">>},
             {[sitemaps |-> 0, pages |-> <<>>], [sitemaps |-> 1, pages |-> <<"u1">>]},
             {EmptyCache}, FALSE)

SpecLive == InitLive /\ [][Next]_vars /\ WF_vars(Next)

\* ================================================================= claims
N == Len(validCredentials)

Occurs(url, list) == \E i \in 1..Len(list) : list[i] = url

RECURSIVE Throttles(_)
Throttles(calls) ==
    IF calls = <<>> THEN 0
    ELSE (IF Head(calls).status \in {"RateLimited", "Forbidden"} THEN 1 ELSE 0)
             + Throttles(Tail(calls))

PoolStage == pc \in {"pool", "exit:credential", "exit:pool"}

\* C1: while the pool is built every credential already tried is either in the
\* valid pool or warned about, never both, and the run ends fatally at this
\* stage exactly when no credential passed both steps: a fatal end leaves an
\* empty valid pool, and a run that goes on has a valid session.
C1_FailuresNonFatal ==
    /\ \A i \in 1..(credPos - 1) :
          (i \in warned) # (\E k \in 1..N : validCredentials[k].credential = i)
    /\ pc \in {"exit:credential", "exit:pool"} => N = 0
    /\ ~PoolStage => N > 0

\* C2: no operation rotates, calls or retries more than N times (N the number
\* of valid sessions), in Phase B and in Phase C; a Phase B operation that has
\* used its whole budget records the answer of its last status call.
C2_RotationBudget ==
    /\ \A w \in 1..Len(workers) :
          LET me == workers[w]
          IN  /\ Throttles(me.calls) <= N
              /\ me.rotationCount <= N
              /\ Len(me.calls) <= N
              /\ (me.st = "settled" /\ me.calls # <<>> /\ me.rotationCount = N)
                    => /\ me.result.status = me.calls[Len(me.calls)].status
                       /\ Occurs(me.url, pagesPerStatus[me.calls[Len(me.calls)].status])
    /\ pc = "phaseC" =>
          /\ cur.rotations <= N
          /\ cur.rotationCount <= N
          /\ cur.probes <= N
          /\ cur.submits <= N

C2_Witness ==
    /\ N = 2
    /\ \E w \in 1..Len(workers) :
          /\ workers[w].st = "settled"
          /\ workers[w].rotationCount = N
          /\ Len(workers[w].calls) = N
          /\ workers[w].result.status = "Forbidden"

\* the indexable set and the freshness window, as the specification states them
C3_Indexable ==
    {"DiscoveredCurrentlyNotIndexed", "CrawledCurrentlyNotIndexed",
     "URLIsUnknownToGoogle", "Forbidden", "Error", "RateLimited"}

FourteenDays == 14 * 24 * 60 * 60 * 1000

Accepts(record) ==
    record.status \in C3_Indexable /\ now - record.lastCheckedAt > FourteenDays

\* C3: on every record the cache file or the store holds, at every reading of
\* the clock, shouldRecheck is true exactly when the status is one of the six
\* indexable ones and the record is more than 14 days old; it is false for the
\* three other statuses at any age.
C3_ShouldRecheck ==
    \A u \in URLS : \A record \in {cacheFile[u], statusPerUrl[u]} :
        record # NoRecord =>
            /\ shouldRecheck(record.status, record.lastCheckedAt) <=> Accepts(record)
            /\ record.status \notin C3_Indexable
                  => ~shouldRecheck(record.status, record.lastCheckedAt)

C3_Witness ==
    /\ \E w \in 1..Len(workers) :
          /\ workers[w].st = "status"
          /\ statusPerUrl[workers[w].url].status = "Forbidden"
          /\ now - statusPerUrl[workers[w].url].lastCheckedAt = FourteenDays + 1

CountIn(url, list) == Cardinality({i \in 1..Len(list) : list[i] = url})

\* C4: when a chunk starts, an operation has a status call in flight exactly
\* when the store holds no record for its URL or shouldRecheck accepts the
\* record; any other operation is settled at once without a call, its result
\* is the stored record, which stays in the store as it was, and its URL is
\* listed under the status of that record; a settled operation makes no call
\* afterwards.
C4_FetchIffMissOrStale ==
    [][/\ batchIndex' = batchIndex + 1 =>
            \A k \in 1..Len(workers') :
                LET me == workers'[k]
                    record == statusPerUrl[me.url]
                IN  IF \/ record = NoRecord
                       \/ shouldRecheck(record.status, record.lastCheckedAt)
                    THEN me.st = "status" /\ me.calls = <<>>
                    ELSE /\ me.st = "settled"
                         /\ me.calls = <<>>
                         /\ me.result = record
                         /\ statusPerUrl'[me.url] = record
                         /\ CountIn(me.url, pagesPerStatus'[record.status])
                              > CountIn(me.url, pagesPerStatus[record.status])
       /\ (batchIndex' = batchIndex /\ pc' = "batch") =>
            \A w \in 1..Len(workers) :
                workers[w].st = "settled" => workers'[w] = workers[w]
      ]_vars

C4_Witness ==
    /\ Len(workers) = 2
    /\ workers[1].st = "settled" /\ workers[1].calls = <<>>
    /\ workers[1].result.status = "SubmittedAndIndexed"
    /\ workers[2].st = "status"
    /\ statusPerUrl[workers[2].url] # NoRecord

\* C5 as stated: once the cache is persisted, every URL of the page set has a
\* record in it whose lastCheckedAt is at or after the start of the run.
C5_AllStampedThisRun ==
    hist.writes > 0 =>
        \A i \in 1..Len(pages) :
            /\ cacheFile[pages[i]] # NoRecord
            /\ cacheFile[pages[i]].lastCheckedAt >= runStart

\* C5 as amended: once the cache is persisted, every URL of the page set has
\* a record in it; the record of a URL fetched live in this run is stamped at
\* or after the start of the run, and every other URL has the record the cache
\* held when the run began, lastCheckedAt included.
C5_OneRecordPerUrl ==
    hist.writes > 0 =>
        /\ \A i \in 1..Len(pages) : cacheFile[pages[i]] # NoRecord
        /\ \A u \in URLS :
              IF u \in hist.live
              THEN Occurs(u, pages) /\ cacheFile[u].lastCheckedAt >= runStart
              ELSE cacheFile[u] = hist.startCache[u]

C5_Witness ==
    /\ hist.writes > 0
    /\ Len(pages) = 2
    /\ hist.live = {pages[2]}
    /\ cacheFile[pages[1]].lastCheckedAt < runStart
    /\ cacheFile[pages[2]].lastCheckedAt > runStart

SamePartition(p, q) ==
    \A s \in Status : \A u \in URLS : CountIn(u, p[s]) = CountIn(u, q[s])

SecondRunWritten == run = 2 /\ hist.ran /\ hist.writes > 0

\* C6: when the orchestrator has run to its end and is run again at once with
\* the same input against a status endpoint that answers as before, the second
\* run makes no status call, persists the cache it found, and lists every URL
\* under the same status as the first run did.
C6_Idempotent ==
    (SecondRunWritten /\ stable) =>
        /\ ~hist.statusCalls
        /\ cacheFile = hist.startCache
        /\ SamePartition(pagesPerStatus, hist.prevPartition)

\* C7: at every moment of Phase B the operations started and not yet settled
\* number at most the concurrency limit given to the batch call (BatchSize
\* here, 50 in the source), also when the page set is larger than the limit.
C7_BoundedInFlight == inFlight <= BatchSize

C7_Witness == Len(pages) > BatchSize /\ inFlight = BatchSize /\ batchIndex = 1

\* C8: when a Phase B operation settles after exactly two status calls, the
\* first answered RateLimited and the second anything but a throttle signal,
\* it has rotated exactly once, and the second answer is the status of its
\* result, of the record the store then holds for its URL, and of the
\* partition list its URL has just been appended to.
C8_RotateOnceThenRecord ==
    [][\A w \in 1..Len(workers) :
          (/\ workers[w].st # "settled"
           /\ workers'[w].st = "settled"
           /\ Len(workers'[w].calls) = 2
           /\ workers'[w].calls[1].status = "RateLimited"
           /\ workers'[w].calls[2].status \notin {"RateLimited", "Forbidden"})
          => LET me == workers'[w]
                 S == me.calls[2].status
             IN  /\ me.rotationCount = 1
                 /\ Throttles(me.calls) = 1
                 /\ me.result.status = S
                 /\ statusPerUrl'[me.url].status = S
                 /\ CountIn(me.url, pagesPerStatus'[S])
                      = CountIn(me.url, pagesPerStatus[S]) + 1
      ]_vars

C8_Witness ==
    \E w \in 1..Len(workers) :
        /\ workers[w].st = "settled"
        /\ Len(workers[w].calls) = 2
        /\ workers[w].calls[1] = [acct |-> 0, status |-> "RateLimited"]
        /\ workers[w].calls[2] = [acct |-> 1, status |-> "SubmittedAndIndexed"]
        /\ statusPerUrl[workers[w].url].status = "SubmittedAndIndexed"

\* C9 as stated: the Phase C operation of a URL whose probe answered 404 has
\* invoked requestIndexing exactly once when it ends.
C9_SubmitOnce ==
    (pc = "phaseC" /\ cur.st = "ended" /\ cur.notFound > 0) => cur.submits = 1

\* C9 as amended: requestIndexing is invoked once per probe of the URL that
\* answered 404, never more than once more than its throttled answers (429 or
\* 403) nor more than N times; it is invoked exactly once for the URL when no
\* submission was answered 429 or 403.
C9_SubmitPerNotFound ==
    pc = "phaseC" =>
        /\ cur.submits = cur.notFound
        /\ cur.submits <= cur.throttled + 1
        /\ cur.submits <= N
        /\ (cur.st = "ended" /\ cur.notFound > 0 /\ cur.throttled = 0)
              => cur.submits = 1

C9_Witness ==
    /\ pc = "phaseC"
    /\ cur.st = "ended"
    /\ cur.report = "requested"
    /\ cur.submits = 2
    /\ cur.throttled = 1

IndexableEntries(url) ==
    {e \in C3_Indexable \X (1..MaxPages + 1) :
        e[2] <= Len(pagesPerStatus[e[1]]) /\ pagesPerStatus[e[1]][e[2]] = url}

\* C10: Phase C works on exactly the partition entries listed under an
\* indexable status, one operation per entry; when no entry is listed under an
\* indexable status, Phase C makes no call and the run goes straight to its
\* successful end.
C10_OnlyIndexable ==
    pc \in {"phaseC", "done"} =>
        /\ \A u \in URLS :
              CountIn(u, indexablePages) = Cardinality(IndexableEntries(u))
        /\ hist.cCalls => cPos \in 1..Len(indexablePages)
        /\ (\A s \in C3_Indexable : pagesPerStatus[s] = <<>>) =>
              /\ ~hist.cCalls
              /\ cur = IdleOp
              /\ pc = "phaseC" => ENABLED AllDone

C10_Witness ==
    /\ pc = "done"
    /\ Len(pages) = 3
    /\ Len(pagesPerStatus["SubmittedAndIndexed"]) = 3
    /\ hist.live = {"u1", "u2"}
    /\ ~hist.cCalls

\* C11: a run given no explicit URL list whose site has no sitemap never gets
\* to the batch, to Phase C or to the successful end: it makes no status call
\* and no Phase C call and writes no cache, the cache file stays as it was, and
\* once it has ended fatally at the page-set resolution nothing more happens.
C11_NoSitemapsFatal ==
    /\ (optUrls = <<>> /\ siteMaps.sitemaps = 0) =>
          /\ pc \in {"pool", "exit:credential", "exit:pool", "resolve",
                     "exit:sitemaps"}
          /\ ~hist.statusCalls
          /\ ~hist.cCalls
          /\ hist.writes = 0
          /\ cacheFile = hist.startCache
          /\ workers = <<>> /\ batchIndex = 0 /\ cPos = 0
    /\ pc = "exit:sitemaps" =>
          /\ optUrls = <<>> /\ siteMaps.sitemaps = 0
          /\ ~ENABLED Next

C11_Witness ==
    /\ pc = "exit:sitemaps"
    /\ N = 2
    /\ cacheFile["u1"] # NoRecord

\* C12: a run that has built its pool and resolved its page set stops only at
\* its successful end, with the cache written once and every URL to index
\* attempted: no failure on one URL, a failed token refresh during a rotation
\* included, stops it earlier.
C12_UrlFailuresContained ==
    (pc \in {"batch", "phaseC", "done", "rejected"} /\ ~ENABLED Next) =>
        /\ pc = "done"
        /\ hist.writes = 1
        /\ cPos = Len(indexablePages)

PartitionEntries(url) ==
    {e \in Status \X (1..MaxPages + 1) :
        e[2] <= Len(pagesPerStatus[e[1]]) /\ pagesPerStatus[e[1]][e[2]] = url}

PartitionSize ==
    Len(Flatten([i \in 1..Len(StatusOrder) |-> pagesPerStatus[StatusOrder[i]]]))

SettledNow == Cardinality({w \in 1..Len(workers) : workers[w].st = "settled"})

ChunksBefore ==
    IF batchIndex = 0 THEN 0 ELSE Min(Len(pages), (batchIndex - 1) * batchSizeArg)

\* C13: during Phase B the partition lists hold one entry for every operation
\* that has settled, whatever the order in which the operations of a chunk
\* settle; once Phase B is over every URL is listed as many times as it occurs
\* in the page set, and the lists together hold as many entries as the page
\* set has items.
C13_OneEntryPerOccurrence ==
    /\ pc = "batch" => PartitionSize = ChunksBefore + SettledNow
    /\ hist.writes > 0 =>
          /\ \A u \in URLS : Cardinality(PartitionEntries(u)) = CountIn(u, pages)
          /\ PartitionSize = Len(pages)

C13_Witness ==
    /\ hist.writes > 0
    /\ pages = <<"u1", "u1", "u2">>
    /\ hist.live = {"u1", "u2"}
    /\ Len(pagesPerStatus["SubmittedAndIndexed"]) = 2
    /\ pagesPerStatus["Forbidden"] = <<"u1">>

\* C14: the cache file is written only by the step that ends Phase B, when
\* every operation of the last chunk has settled and before any Phase C call;
\* that step writes the whole store, once; a run still in Phase B or ended
\* fatally before it has written nothing and left the cache file as it found
\* it, a run in Phase C or at its end has written exactly once.
C14_OneFullWrite ==
    [][/\ (cacheFile' # cacheFile \/ hist'.writes # hist.writes) =>
            /\ pc = "batch" /\ pc' = "phaseC"
            /\ allSettled
            /\ batchIndex = batchCount(pages, batchSizeArg)
            /\ PartitionSize = Len(pages)
            /\ cacheFile' = statusPerUrl
            /\ statusPerUrl' = statusPerUrl
            /\ hist.writes = 0 /\ hist'.writes = 1
            /\ ~hist.cCalls /\ ~hist'.cCalls
       /\ pc \in {"pool", "exit:credential", "exit:pool", "resolve",
                  "exit:sitemaps", "batch"}
             => hist.writes = 0 /\ cacheFile = hist.startCache
       /\ pc \in {"phaseC", "done"} => hist.writes = 1
       /\ hist.cCalls => hist.writes = 1
      ]_vars

C14_Witness ==
    /\ pc = "phaseC"
    /\ hist.writes = 1
    /\ cPos = 1 /\ cur.st = "probe" /\ cur.probes = 1
    /\ Len(pages) = 3
    /\ hist.live = {"u2"}
    /\ cacheFile # hist.startCache
    /\ cacheFile["u1"] = hist.startCache["u1"]

\* C15: a Phase C operation that has ended reports a failure exactly when N of
\* its probes and submissions were answered with a throttle code; an operation
\* that has taken N throttled answers does not stop the run, which goes on
\* with the next URL to index; at the end of the run the loop has gone
\* through every URL to index.
C15_ExhaustionReported ==
    /\ (pc = "phaseC" /\ cur.st = "ended") =>
          (cur.report = "failed" <=> cur.rotations = N)
    /\ (hist.cCalls /\ cur.rotations = N) =>
          /\ pc \in {"phaseC", "done"}
          /\ (pc = "phaseC" /\ cur.st = "ended") =>
                IF cPos < Len(indexablePages) THEN ENABLED NextUrl
                ELSE ENABLED AllDone
    /\ pc = "done" => cPos = Len(indexablePages)

Ended == pc \in {"done", "exit:credential", "exit:pool", "exit:sitemaps", "rejected"}

\* C16: when every remote call and every token refresh is answered, the run
\* comes to an end whatever the answers are, throttle signals on every call
\* included: a Phase B operation makes at most N status calls and a Phase C
\* operation at most N probes, each operation counting its rotations from zero
\* (an operation has rotated as many times as it got throttle answers).
C16_Terminates ==
    /\ <>[]Ended
    /\ [](\A w \in 1..Len(workers) :
            /\ Len(workers[w].calls) <= N
            /\ workers[w].st \in {"status", "settled"} =>
                  workers[w].rotationCount = Throttles(workers[w].calls))
    /\ [](pc = "phaseC" =>
            /\ cur.probes <= N
            /\ cur.st \in {"probe", "submit", "ended"} =>
                  cur.rotationCount = cur.rotations)

C16_Witness ==
    /\ pc = "done"
    /\ N = 2
    /\ pages = <<"u1">>
    /\ pagesPerStatus["Forbidden"] = <<"u1">>
    /\ hist.live = {"u1"}
    /\ cur.report = "failed"
    /\ cur.probes = 2
    /\ cur.submits = 0

Started(before, after) == before.st # "status" /\ after.st = "status"

\* C17: once the pool is built the active index stays within 0..N-1 and moves
\* only from i to (i + 1) mod N; no session leaves the pool or changes its
\* credential; a token refresh that succeeds stores a new token on the session
\* the rotation picked, in the pool itself; and every status call, probe or
\* submission that starts goes out with the token which the pool holds at that
\* moment for the session at the active index.
C17_SharedRotation ==
    [][pc \notin {"pool", "exit:credential", "exit:pool"} =>
        /\ currentAccountIndex \in 0..(N - 1)
        /\ currentAccountIndex' \in
              {currentAccountIndex, (currentAccountIndex + 1) % N}
        /\ Len(validCredentials') = N
        /\ \A k \in 1..N :
              /\ validCredentials'[k].credential = validCredentials[k].credential
              /\ validCredentials'[k].accessToken >= validCredentials[k].accessToken
        /\ \A w \in 1..Len(workers) :
              (Len(workers') = Len(workers) /\ workers[w].st = "refresh"
                 /\ workers'[w].st # "refresh" /\ pc' # "rejected")
              => validCredentials'[workers[w].next + 1].accessToken
                    = validCredentials[workers[w].next + 1].accessToken + 1
        /\ (cur.st = "refresh" /\ cur'.st # "refresh" /\ pc' # "rejected")
              => validCredentials'[cur.next + 1].accessToken
                    = validCredentials[cur.next + 1].accessToken + 1
        /\ \A w \in 1..Len(workers') :
              (w > Len(workers) \/ batchIndex' # batchIndex
                 \/ Started(workers[w], workers'[w]))
              => (workers'[w].st = "status" =>
                    /\ workers'[w].acct = currentAccountIndex'
                    /\ workers'[w].token =
                          validCredentials'[currentAccountIndex' + 1].accessToken)
        /\ (cur'.st \in {"probe", "submit"} /\ cur'.st # cur.st) =>
              /\ cur'.acct = currentAccountIndex'
              /\ cur'.accessToken =
                    validCredentials'[currentAccountIndex' + 1].accessToken
      ]_vars

C17_Witness ==
    /\ pc = "batch"
    /\ N = 2
    /\ \E w \in 1..Len(workers) :
          /\ workers[w].st = "status"
          /\ workers[w].rotationCount = 1
          /\ workers[w].next = 1
          /\ workers[w].acct = 0
          /\ workers[w].token = 1
          /\ validCredentials[1].accessToken = 1

SessionsTried(calls) == {calls[i].acct : i \in 1..Len(calls)}

\* C18: a Phase B operation that settles on a throttle status (RateLimited or
\* Forbidden) after calling the status endpoint has made a call on every one
\* of the N valid sessions.
C18_ThrottleOnlyIfAllTried ==
    \A w \in 1..Len(workers) :
        (/\ workers[w].st = "settled"
         /\ workers[w].calls # <<>>
         /\ workers[w].result.status \in {"RateLimited", "Forbidden"})
        => SessionsTried(workers[w].calls) = 0..(N - 1)

\* C19: once the cache is persisted, every URL of the page set is listed in
\* the partition map under one status only, the status of the record the
\* persisted cache holds for it.
C19_PartitionMatchesCache ==
    hist.writes > 0 =>
        \A i \in 1..Len(pages) : \A s \in Status :
            Occurs(pages[i], pagesPerStatus[s]) <=> s = cacheFile[pages[i]].status

\* C20: a Phase C operation that has ended has reported one of 'indexing
\* requested', 'already requested' and 'failed'; it reports 'indexing
\* requested' only after a probe answered 404 and a submission answered with a
\* code below 400, and 'already requested' only after a probe answered with a
\* code below 400.
C20_OneTruthfulOutcome ==
    (pc = "phaseC" /\ cur.st = "ended") =>
        /\ cur.report \in {"requested", "already", "failed"}
        /\ cur.report = "requested" =>
              /\ cur.status = 404
              /\ cur.submits > 0
              /\ cur.requestStatus < 400
        /\ cur.report = "already" => cur.status < 400

====
